---- MODULE Spec2Model ----
(***************************************************************************)
(* Model of the Wikipedia lookup adapter (src/wikipedia-mcp-server.js):    *)
(* the discovery handler, the call-tool dispatcher and the four handlers.  *)
(* A handler runs up to its `await axios.get(...)`, is suspended there,    *)
(* and resumes when the upstream answers; several calls may be suspended   *)
(* at once.                                                                *)
(*                                                                         *)
(* A string is a sequence of tokens; a token is a one-character string, or *)
(* a literal of the source kept whole.  A JavaScript value is a record     *)
(* [t, s, n]: its type tag, its characters, its number.                    *)
(***************************************************************************)
EXTENDS Integers, Sequences, FiniteSets, TLC

VARIABLES calls, http, discovered

vars == <<calls, http, discovered>>

(* ------------------------------ bounds ---------------------------------- *)

MaxCalls == 2
MaxDiscoveries == 2
MaxSnippetLen == 4
MaxExtractLen == 4
MaxPieces == 2
MaxCategories == 2

(* --------------------------- JavaScript values -------------------------- *)

Undefined == [t |-> "undefined", s |-> <<>>, n |-> 0]

Str(s) == [t |-> "string", s |-> s, n |-> 0]

Num(n) == [t |-> "number", s |-> <<>>, n |-> n]

NoArray == [t |-> "undefined", a |-> <<>>]

Arr(a) == [t |-> "array", a |-> a]

\* `${v}` of a template literal
Show(v) ==
    CASE v.t = "undefined" -> <<"undefined">>
      [] v.t = "string" -> v.s
      [] OTHER -> <<ToString(v.n)>>

\* the truthiness test of `if (v)` and `!v`
Truthy(v) ==
    CASE v.t = "undefined" -> FALSE
      [] v.t = "string" -> v.s # <<>>
      [] OTHER -> v.n # 0

(* ---------------------------- string builtins --------------------------- *)

\* s.startsWith(pat) at 1-based position i
MatchAt(s, pat, i) ==
    /\ i + Len(pat) - 1 <= Len(s)
    /\ \A k \in 1..Len(pat) : s[i + k - 1] = pat[k]

\* s.indexOf(pat), 1-based; 0 when pat does not occur
IndexOf(s, pat) ==
    LET hits == {i \in 1..Len(s) : MatchAt(s, pat, i)}
    IN IF hits = {} THEN 0 ELSE CHOOSE i \in hits : \A j \in hits : i <= j

\* s.split(sep) for a non-empty separator
RECURSIVE Split(_, _)
Split(s, sep) ==
    LET i == IndexOf(s, sep)
    IN IF i = 0 THEN <<s>>
       ELSE <<SubSeq(s, 1, i - 1)>> \o Split(SubSeq(s, i + Len(sep), Len(s)), sep)

\* a.join(sep)
RECURSIVE Join(_, _)
Join(a, sep) ==
    IF a = <<>> THEN <<>>
    ELSE IF Len(a) = 1 THEN a[1]
    ELSE a[1] \o sep \o Join(Tail(a), sep)

\* a.slice(0, end): a negative end counts from the end of the array
Slice0(a, end) ==
    LET e == IF end < 0 THEN (IF Len(a) + end < 0 THEN 0 ELSE Len(a) + end)
             ELSE (IF end > Len(a) THEN Len(a) ELSE end)
    IN SubSeq(a, 1, e)

\* s.replace(pat, rep) with a string pattern: the first occurrence only
ReplaceFirst(s, pat, rep) ==
    LET i == IndexOf(s, pat)
    IN IF i = 0 THEN s
       ELSE SubSeq(s, 1, i - 1) \o rep \o SubSeq(s, i + Len(pat), Len(s))

\* position of the first ">" at or after i; 0 when there is none
NextClose(s, i) ==
    LET hits == {k \in i..Len(s) : s[k] = ">"}
    IN IF hits = {} THEN 0 ELSE CHOOSE k \in hits : \A j \in hits : k <= j

\* position of the last ">" at or after i; 0 when there is none
LastClose(s, i) ==
    LET hits == {k \in i..Len(s) : s[k] = ">"}
    IN IF hits = {} THEN 0 ELSE CHOOSE k \in hits : \A j \in hits : k >= j

\* the greedy pattern /<.*>/: the match that starts at i runs to the last ">"
TagEndGreedy(s, i) == IF s[i] = "<" THEN LastClose(s, i + 1) ELSE 0

\* where the match of /<[^>]*>/ that starts at i ends; 0 when none starts at i
TagEnd(s, i) == IF s[i] = "<" THEN NextClose(s, i + 1) ELSE 0

\* snippet.replace(/<[^>]*>/g, ''): scan from the left, drop each match
RECURSIVE StripFrom(_, _)
StripFrom(s, i) ==
    IF i > Len(s) THEN <<>>
    ELSE LET e == TagEnd(s, i)
         IN IF e # 0 THEN StripFrom(s, e + 1)
            ELSE <<s[i]>> \o StripFrom(s, i + 1)

StripTags(s) == StripFrom(s, 1)

\* encodeURIComponent, on the characters the model uses
EncodeChar(c) ==
    CASE c = " " -> "%20"
      [] c = ":" -> "%3A"
      [] c = "<" -> "%3C"
      [] c = ">" -> "%3E"
      [] OTHER -> c

EncodeURIComponent(s) == [i \in 1..Len(s) |-> EncodeChar(s[i])]

\* a UTF-16 surrogate without its pair, as one character
LoneSurrogate == "U+D800"

\* encodeURIComponent throws URIError on a string with an unpaired surrogate
UriMalformed(s) == \E i \in 1..Len(s) : s[i] = LoneSurrogate

(* ----------------------------- completions ------------------------------ *)
(* How a piece of code ends: kind "return" with the content blocks of the  *)
(* returned object, kind "error" for a JavaScript or axios error that is   *)
(* not an McpError (text is error.message, status is error.response.status,*)
(* 0 without a response), kind "McpError" with the ErrorCode member and    *)
(* the message passed to the constructor.                                  *)

Returned(text) ==
    [kind |-> "return", code |-> "", status |-> 0, text |-> <<>>,
     content |-> <<[type |-> "text", text |-> text]>>]

Thrown(message, status) ==
    [kind |-> "error", code |-> "", status |-> status, text |-> message,
     content |-> <<>>]

McpError(code, message) ==
    [kind |-> "McpError", code |-> code, status |-> 0, text |-> message,
     content |-> <<>>]

TypeErrorReading(prop) ==
    Thrown(<<"Cannot read properties of undefined (reading '", prop, "')">>, 0)

(* ------------------------------- discovery ------------------------------ *)

\* the ListToolsRequestSchema handler's answer
ToolList ==
    << [name |-> "wikipedia_search",
        description |-> "Search Wikipedia articles by query",
        properties |-> {"query", "results"},
        required |-> {"query"},
        defaults |-> {<<"results", 5>>}],
       [name |-> "wikipedia_summary",
        description |-> "Get summary of a Wikipedia article",
        properties |-> {"title", "sentences"},
        required |-> {"title"},
        defaults |-> {<<"sentences", 3>>}],
       [name |-> "wikipedia_content",
        description |-> "Get full content of a Wikipedia article",
        properties |-> {"title"},
        required |-> {"title"},
        defaults |-> {}],
       [name |-> "wikipedia_page_info",
        description |-> "Get detailed information about a Wikipedia page",
        properties |-> {"title"},
        required |-> {"title"},
        defaults |-> {}] >>

(* ------------------------------- dispatcher ----------------------------- *)

\* a switch without a default branch: an unknown name runs the last case
HandlerOfNoDefault(name) ==
    CASE name = "wikipedia_search" -> "handleSearch"
      [] name = "wikipedia_summary" -> "handleSummary"
      [] name = "wikipedia_content" -> "handleContent"
      [] OTHER -> "handlePageInfo"

\* the switch of the CallToolRequestSchema handler: the handler a name selects
HandlerOf(name) ==
    CASE name = "wikipedia_search" -> "handleSearch"
      [] name = "wikipedia_summary" -> "handleSummary"
      [] name = "wikipedia_content" -> "handleContent"
      [] name = "wikipedia_page_info" -> "handlePageInfo"
      [] OTHER -> "none"

\* the switch's default branch
UnknownTool(name) == McpError("MethodNotFound", <<"Unknown tool: ", name>>)

\* a dispatcher that wraps every failure, recognised or not
WrapAll(name, c) ==
    IF c.kind = "return" THEN c
    ELSE McpError("InternalError", <<"Error executing ", name, ": ">> \o c.text)

\* the catch clause of the CallToolRequestSchema handler
DispatchCatch(name, c) ==
    IF c.kind = "return" THEN c
    ELSE IF c.kind = "McpError" THEN c
    ELSE McpError("InternalError", <<"Error executing ", name, ": ">> \o c.text)

(* --------------------------- argument destructuring --------------------- *)

\* `const { query, ... } = args` when args is undefined
DestructureError(prop) ==
    Thrown(<<"Cannot destructure property '", prop, "' of 'args' as it is undefined.">>, 0)

\* the first property each handler destructures
FirstProp(name) == IF name = "wikipedia_search" THEN "query" ELSE "title"

\* a handler default of 10 results
ResultsOrTen(args) == IF args.results.t = "undefined" THEN Num(10) ELSE args.results

\* `results = 5` of handleSearch
ResultsOf(args) == IF args.results.t = "undefined" THEN Num(5) ELSE args.results

\* `sentences = 3` of handleSummary
SentencesOf(args) == IF args.sentences.t = "undefined" THEN Num(3) ELSE args.sentences

(* ------------------------------- handleSearch --------------------------- *)

\* one pass of the forEach callback: the text added for the result at `index`
SearchEntry(result, index) ==
    <<ToString(index), ". ">> \o Show(result.title) \o <<"\n">>
    \o (IF Truthy(result.snippet)
        THEN <<"   ">> \o StripTags(result.snippet.s) \o <<"\n">>
        ELSE <<>>)
    \o <<"\n">>

RECURSIVE SearchEntriesFrom(_, _)
SearchEntriesFrom(results, index) ==
    IF index > Len(results) THEN <<>>
    ELSE SearchEntry(results[index], index) \o SearchEntriesFrom(results, index + 1)

\* the try block of handleSearch, once axios.get has settled with resp
SearchTry(query, resp) ==
    IF resp.err # "none" THEN Thrown(resp.message, resp.status)
    ELSE IF ~resp.body.hasData THEN TypeErrorReading("query")
    ELSE IF ~resp.body.hasQuery THEN TypeErrorReading("search")
    ELSE IF resp.body.search.t = "undefined" \/ Len(resp.body.search.a) = 0
         THEN Returned(<<"No results found for query: ">> \o Show(query))
    ELSE Returned(<<"Wikipedia search results for '">> \o Show(query) \o <<"':\n\n">>
                  \o SearchEntriesFrom(resp.body.search.a, 1))

\* handleSearch from the await on, with its catch clause
handleSearch(query, resp) ==
    LET c == SearchTry(query, resp)
    IN IF c.kind = "error"
       THEN McpError("InternalError", <<"Wikipedia search failed: ">> \o c.text)
       ELSE c

(* ------------------------------- handleSummary -------------------------- *)

\* a sentence splitting that ends every summary with a period
SummaryCoreAlwaysDot(extract, sentences) ==
    Join(Slice0(Split(extract, <<".", " ">>), sentences), <<".", " ">>) \o <<".">>

\* the sentence splitting of handleSummary: the text added for the extract
SummaryCore(extract, sentences) ==
    LET sentenceArray == Split(extract, <<".", " ">>)
        limitedSummary == Join(Slice0(sentenceArray, sentences), <<".", " ">>)
    IN limitedSummary \o (IF Len(sentenceArray) > sentences THEN <<".">> ELSE <<>>)

\* the try block of handleSummary
SummaryTry(title, sentences, resp) ==
    IF resp.err # "none" THEN Thrown(resp.message, resp.status)
    ELSE IF ~resp.body.hasData \/ resp.body.type = Str(<<"disambiguation">>)
         THEN Returned(<<"Multiple articles found for '">> \o Show(title)
                       \o <<"'. Please be more specific.">>)
    ELSE Returned(<<"Summary of '">> \o Show(resp.body.title) \o <<"':\n\n">>
                  \o (IF Truthy(resp.body.extract)
                      THEN SummaryCore(resp.body.extract.s, sentences.n)
                      ELSE <<>>)
                  \o (IF resp.body.hasDesktop
                      THEN <<"\n\nURL: ">> \o Show(resp.body.page)
                      ELSE <<>>))

\* a catch clause without the 404 case
handleSummaryNo404(title, sentences, resp) ==
    LET c == SummaryTry(title, sentences, resp)
    IN IF c.kind = "error"
       THEN McpError("InternalError", <<"Failed to get summary: ">> \o c.text)
       ELSE c

\* the catch clause of handleSummary
SummaryCatch(title, c) ==
    IF c.kind = "error"
    THEN IF c.status = 404
         THEN Returned(<<"No Wikipedia page found for '">> \o Show(title) \o <<"'">>)
         ELSE McpError("InternalError", <<"Failed to get summary: ">> \o c.text)
    ELSE c

\* handleSummary from the await on, with its catch clause
handleSummary(title, sentences, resp) ==
    SummaryCatch(title, SummaryTry(title, sentences, resp))

(* ------------------------------- handleContent -------------------------- *)

\* the try block of handleContent
ContentTry(title, resp) ==
    IF resp.err # "none" THEN Thrown(resp.message, resp.status)
    ELSE IF ~resp.body.hasData THEN TypeErrorReading("query")
    ELSE IF ~resp.body.hasQuery THEN TypeErrorReading("pages")
    ELSE IF resp.body.pages = <<>> THEN TypeErrorReading("extract")
    ELSE LET page == resp.body.pages[1]
         IN IF page.id = "-1" \/ ~Truthy(page.extract)
            THEN Returned(<<"No Wikipedia page found for '">> \o Show(title) \o <<"'">>)
            ELSE Returned(<<"Title: ">> \o Show(page.title) \o <<"\n">>
                          \o <<"Page ID: ">> \o Show(page.pageid) \o <<"\n\n">>
                          \o <<"Content:\n">> \o Show(page.extract))

\* a catch clause copied from handleSummary with its message
handleContentCopied(title, resp) ==
    LET c == ContentTry(title, resp)
    IN IF c.kind = "error"
       THEN McpError("InternalError", <<"Failed to get summary: ">> \o c.text)
       ELSE c

\* handleContent from the await on, with its catch clause
handleContent(title, resp) ==
    LET c == ContentTry(title, resp)
    IN IF c.kind = "error"
       THEN McpError("InternalError", <<"Failed to get content: ">> \o c.text)
       ELSE c

(* ------------------------------- handlePageInfo ------------------------- *)

\* the category prefix the page-info handler looks for
CategoryPrefix == <<"C", "a", "t", "e", "g", "o", "r", "y", ":">>

\* cat => cat.title.replace('Category:', '')
CategoryName(title) == ReplaceFirst(title, CategoryPrefix, <<>>)

\* page.categories.map(...): the names, in upstream order
CategoryNames(categories) == [i \in 1..Len(categories) |-> CategoryName(categories[i].s)]

\* the try block of handlePageInfo
PageInfoTry(title, resp) ==
    IF resp.err # "none" THEN Thrown(resp.message, resp.status)
    ELSE IF ~resp.body.hasData THEN TypeErrorReading("query")
    ELSE IF ~resp.body.hasQuery THEN TypeErrorReading("pages")
    ELSE IF resp.body.pages = <<>> THEN TypeErrorReading("title")
    ELSE LET page == resp.body.pages[1]
         IN IF page.id = "-1"
            THEN Returned(<<"No Wikipedia page found for '">> \o Show(title) \o <<"'">>)
            ELSE IF page.categories.t = "array"
                    /\ \E i \in 1..Len(page.categories.a) : page.categories.a[i].t # "string"
            THEN TypeErrorReading("replace")
            ELSE Returned(
                <<"Title: ">> \o Show(page.title) \o <<"\n">>
                \o <<"Page ID: ">> \o Show(page.pageid) \o <<"\n">>
                \o (IF Truthy(page.fullurl)
                    THEN <<"URL: ">> \o Show(page.fullurl) \o <<"\n">> ELSE <<>>)
                \o (IF page.categories.t = "array"
                    THEN <<"Categories: ">>
                         \o Join(CategoryNames(page.categories.a), <<",", " ">>)
                         \o <<"\n">>
                    ELSE <<>>)
                \o (IF page.links.t = "array"
                    THEN <<"Links count: ", ToString(Len(page.links.a)), "\n">> ELSE <<>>)
                \o (IF page.images.t = "array"
                    THEN <<"Images count: ", ToString(Len(page.images.a)), "\n">>
                         \o (IF Len(page.images.a) > 0
                             THEN <<"First image: ">> \o Show(page.images.a[1]) \o <<"\n">>
                             ELSE <<>>)
                    ELSE <<>>))

\* handlePageInfo from the await on, with its catch clause
handlePageInfo(title, resp) ==
    LET c == PageInfoTry(title, resp)
    IN IF c.kind = "error"
       THEN McpError("InternalError", <<"Failed to get page info: ">> \o c.text)
       ELSE c

(* ------------------------------ HTTP requests --------------------------- *)

WIKIPEDIA_API_BASE == <<"https://en.wikipedia.org/api/rest_v1">>

WIKIPEDIA_SEARCH_API == <<"https://en.wikipedia.org/w/api.php">>

Lit(token) == Str(<<token>>)

\* the axios.get call of each handler: the URL and the params object
Request(name, args) ==
    CASE name = "wikipedia_search" ->
           [url |-> WIKIPEDIA_SEARCH_API,
            params |-> << <<"action", Lit("query")>>, <<"list", Lit("search")>>,
                          <<"srsearch", args.query>>, <<"srlimit", ResultsOf(args)>>,
                          <<"format", Lit("json")>> >>]
      [] name = "wikipedia_summary" ->
           [url |-> WIKIPEDIA_API_BASE \o <<"/page/summary/">>
                    \o EncodeURIComponent(Show(args.title)),
            params |-> <<>>]
      [] name = "wikipedia_content" ->
           [url |-> WIKIPEDIA_SEARCH_API,
            params |-> << <<"action", Lit("query")>>, <<"prop", Lit("extracts")>>,
                          <<"titles", args.title>>, <<"explaintext", Lit("true")>>,
                          <<"format", Lit("json")>> >>]
      [] OTHER ->
           [url |-> WIKIPEDIA_SEARCH_API,
            params |-> << <<"action", Lit("query")>>,
                          <<"prop", Lit("info|categories|links|images")>>,
                          <<"titles", args.title>>, <<"inprop", Lit("url")>>,
                          <<"cllimit", Num(10)>>, <<"pllimit", Num(10)>>,
                          <<"imlimit", Num(5)>>, <<"format", Lit("json")>> >>]

(* ------------------------------ upstream answers ------------------------ *)
(* What axios.get settles with: err "none" and a body, or an error with a  *)
(* message and, when the upstream answered, its status (0 when it did not).*)

EmptyBody ==
    [hasData |-> FALSE, hasQuery |-> FALSE, search |-> NoArray,
     type |-> Undefined, title |-> Undefined, extract |-> Undefined,
     hasDesktop |-> FALSE, page |-> Undefined, pages |-> <<>>]

NoResp == [err |-> "unsent", status |-> 0, message |-> <<>>, body |-> EmptyBody]

Ok(body) == [err |-> "none", status |-> 200, message |-> <<>>, body |-> body]

Failed(err, status, message) ==
    [err |-> err, status |-> status, message |-> <<message>>, body |-> EmptyBody]

Pending ==
    [kind |-> "pending", code |-> "", status |-> 0, text |-> <<>>, content |-> <<>>]

(* --------------------------------- calls -------------------------------- *)
(* calls[id] is one invocation of the CallToolRequestSchema handler: its   *)
(* request (name, args), where it is (pc), the handler the switch chose,   *)
(* what axios.get settled with (resp), what the handler ended with         *)
(* (raised) and what the caller received (out).                            *)

Init ==
    /\ calls = <<>>
    /\ http = <<>>
    /\ discovered = <<>>

\* handlers that refuse to run once some earlier call has failed
RunHandlerPoisoned(name, args, resp) ==
    IF \E id \in DOMAIN calls : calls[id].out.kind = "McpError"
    THEN McpError("InternalError", <<"Server is in a failed state">>)
    ELSE CASE name = "wikipedia_search" -> handleSearch(args.query, resp)
           [] name = "wikipedia_summary" ->
                handleSummary(args.title, SentencesOf(args), resp)
           [] name = "wikipedia_content" -> handleContent(args.title, resp)
           [] OTHER -> handlePageInfo(args.title, resp)

\* the handler invocation of the switch, from the await on
RunHandler(name, args, resp) ==
    CASE name = "wikipedia_search" -> handleSearch(args.query, resp)
      [] name = "wikipedia_summary" -> handleSummary(args.title, SentencesOf(args), resp)
      [] name = "wikipedia_content" -> handleContent(args.title, resp)
      [] OTHER -> handlePageInfo(args.title, resp)

Finished(name, args, handler, resp, raised) ==
    [name |-> name, args |-> args, pc |-> "done", handler |-> handler,
     resp |-> resp, raised |-> raised, out |-> DispatchCatch(name, raised)]

\* the ListToolsRequestSchema handler
ListTools ==
    /\ Len(discovered) < MaxDiscoveries
    /\ discovered' = Append(discovered, ToolList)
    /\ UNCHANGED <<calls, http>>

\* how a handler ends before its axios.get, Pending when it reaches the call:
\* handleSummary builds the URL inside its try block, and encodeURIComponent
\* may throw there
BeforeGet(name, args) ==
    IF name = "wikipedia_summary" /\ UriMalformed(Show(args.title))
    THEN SummaryCatch(args.title, Thrown(<<"URI malformed">>, 0))
    ELSE Pending

\* a handler that calls axios.get again after the first call
IssueGetTwice(log, id, name, args) ==
    log \o << [call |-> id, method |-> "GET", request |-> Request(name, args)],
              [call |-> id, method |-> "GET", request |-> Request(name, args)] >>

\* the one axios.get of a handler, added to the requests sent
IssueGet(log, id, name, args) ==
    Append(log, [call |-> id, method |-> "GET", request |-> Request(name, args)])

\* the CallToolRequestSchema handler up to the handler's await
Begin(name, args) ==
    LET id == Len(calls) + 1
        h == HandlerOf(name)
    IN IF h = "none"
       THEN /\ calls' = Append(calls, Finished(name, args, h, NoResp, UnknownTool(name)))
            /\ UNCHANGED <<http, discovered>>
       ELSE IF ~args.present
       THEN /\ calls' = Append(calls, Finished(name, args, h, NoResp,
                                               DestructureError(FirstProp(name))))
            /\ UNCHANGED <<http, discovered>>
       ELSE IF BeforeGet(name, args) # Pending
       THEN /\ calls' = Append(calls, Finished(name, args, h, NoResp,
                                               BeforeGet(name, args)))
            /\ UNCHANGED <<http, discovered>>
       ELSE /\ calls' = Append(calls, [name |-> name, args |-> args, pc |-> "await",
                                       handler |-> h, resp |-> NoResp,
                                       raised |-> Pending, out |-> Pending])
            /\ http' = IssueGet(http, id, name, args)
            /\ UNCHANGED discovered

\* axios.get settles for call id: the handler resumes and the call ends
Settle(id, resp) ==
    /\ id \in DOMAIN calls
    /\ calls[id].pc = "await"
    /\ calls' = [calls EXCEPT ![id] =
                   Finished(calls[id].name, calls[id].args, calls[id].handler, resp,
                            RunHandler(calls[id].name, calls[id].args, resp))]
    /\ UNCHANGED <<http, discovered>>

(* ------------------------- requests the caller makes -------------------- *)

ToolNames ==
    {"wikipedia_search", "wikipedia_summary", "wikipedia_content",
     "wikipedia_page_info"}

\* the names a caller may send: the four of the switch and one it does not know
RequestNames == ToolNames \cup {"wikipedia_random"}

ArgMap(query, results, title, sentences) ==
    [present |-> TRUE, query |-> query, results |-> results,
     title |-> title, sentences |-> sentences]

\* a request without an `arguments` member
NoArgs ==
    [present |-> FALSE, query |-> Undefined, results |-> Undefined,
     title |-> Undefined, sentences |-> Undefined]

\* `arguments: {}`
EmptyArgs == ArgMap(Undefined, Undefined, Undefined, Undefined)

\* only the required argument
RequiredArgs == ArgMap(Lit("q"), Undefined, Lit("q"), Undefined)

\* every argument
FullArgs == ArgMap(Lit("q"), Num(2), Lit("q"), Num(1))

\* a title and a query that hold an unpaired surrogate
MalformedArgs == ArgMap(Lit(LoneSurrogate), Undefined, Lit(LoneSurrogate), Undefined)

RequestArgs == {NoArgs, EmptyArgs, RequiredArgs, FullArgs, MalformedArgs}

(* ------------------------- answers the upstream gives ------------------- *)

NetworkError == Failed("network", 0, "Network Error")

Http404 == Failed("http", 404, "Request failed with status code 404")

Http500 == Failed("http", 500, "Request failed with status code 500")

\* a JSON object without a `query` member
DataBody == [EmptyBody EXCEPT !.hasData = TRUE]

\* a JSON object with a `query` member
QueryBody == [DataBody EXCEPT !.hasQuery = TRUE]

SearchResult(title, snippet) == [title |-> title, snippet |-> snippet]

SearchBody(results) == [QueryBody EXCEPT !.search = results]

Page(id, title, pageid, extract) ==
    [id |-> id, title |-> title, pageid |-> pageid, extract |-> extract,
     fullurl |-> Undefined, categories |-> NoArray, links |-> NoArray,
     images |-> NoArray]

MissingPage == Page("-1", Lit("q"), Undefined, Undefined)

PagesBody(pages) == [QueryBody EXCEPT !.pages = pages]

SummaryBody(type, title, extract) ==
    [DataBody EXCEPT !.type = type, !.title = title, !.extract = extract]

ExtractABC == Str(<<"A", ".", " ", "B", ".", " ", "C", ".">>)

ExtractABCD == Str(<<"A", ".", " ", "B", ".", " ", "C", ".", " ", "D", ".">>)

FullSearch ==
    Ok(SearchBody(Arr(<<SearchResult(Lit("T"), Str(<<"a", "<", "b", ">", "c">>)),
                        SearchResult(Lit("U"), Undefined)>>)))

FullSummary == Ok(SummaryBody(Lit("standard"), Lit("T"), ExtractABCD))

FullContent == Ok(PagesBody(<<Page("42", Lit("T"), Num(42), ExtractABC)>>))

FullPageInfo ==
    Ok(PagesBody(<<[Page("42", Lit("T"), Num(42), Undefined)
                    EXCEPT !.fullurl = Lit("https://en.wikipedia.org/wiki/T"),
                           !.categories = Arr(<<Str(CategoryPrefix \o <<"F">>)>>),
                           !.links = Arr(<<Lit("L1"), Lit("L2")>>),
                           !.images = Arr(<<Lit("File:I.png")>>)]>>))

SearchAnswers ==
    {NetworkError, Http404, Ok(DataBody), Ok(QueryBody),
     Ok(SearchBody(Arr(<<>>))), FullSearch}

SummaryAnswers ==
    {NetworkError, Http404, Http500, Ok(EmptyBody),
     Ok(SummaryBody(Lit("disambiguation"), Lit("T"), ExtractABCD)),
     FullSummary,
     Ok([SummaryBody(Lit("standard"), Lit("T"), Undefined)
         EXCEPT !.hasDesktop = TRUE, !.page = Lit("https://en.wikipedia.org/wiki/T")])}

ContentAnswers ==
    {NetworkError, Http404, Ok(DataBody), Ok(PagesBody(<<>>)),
     Ok(PagesBody(<<MissingPage>>)),
     Ok(PagesBody(<<Page("-1", Lit("T"), Num(42), ExtractABC)>>)),
     Ok(PagesBody(<<Page("42", Lit("T"), Num(42), Undefined)>>)), FullContent}

PageInfoAnswers ==
    {NetworkError, Http404, Ok(DataBody), Ok(PagesBody(<<>>)),
     Ok(PagesBody(<<MissingPage>>)),
     Ok(PagesBody(<<Page("42", Lit("T"), Num(42), Undefined)>>)), FullPageInfo}

\* what the endpoint a handler queries may answer
AnswersTo(name) ==
    CASE name = "wikipedia_search" -> SearchAnswers
      [] name = "wikipedia_summary" -> SummaryAnswers
      [] name = "wikipedia_content" -> ContentAnswers
      [] OTHER -> PageInfoAnswers

(* ------------------------------ the server ------------------------------ *)
(* Calls arrive while others are suspended, and discovery is asked in      *)
(* between.  Each endpoint answers with an error, an absent page or list,  *)
(* or a full payload.                                                      *)

\* what the endpoint a handler queries answers in the server specification
ServerAnswersTo(name) ==
    CASE name = "wikipedia_search" -> {NetworkError, Http404, Ok(DataBody), FullSearch}
      [] name = "wikipedia_summary" -> {NetworkError, Http404, Http500, FullSummary}
      [] name = "wikipedia_content" ->
           {NetworkError, Http500, Ok(PagesBody(<<MissingPage>>)), FullContent}
      [] OTHER -> {NetworkError, Http500, Ok(PagesBody(<<MissingPage>>)), FullPageInfo}

\* the argument mappings sent with a name in the server specification
ServerArgsFor(name) ==
    IF name \in ToolNames THEN {NoArgs, RequiredArgs, FullArgs} ELSE {NoArgs, FullArgs}

\* a caller sends a call-tool request
CallTool ==
    /\ Len(calls) < MaxCalls
    /\ \E name \in RequestNames : \E args \in ServerArgsFor(name) : Begin(name, args)

\* the upstream answers one of the suspended calls
Answer ==
    \E id \in DOMAIN calls :
        \E resp \in ServerAnswersTo(calls[id].name) : Settle(id, resp)

Next == ListTools \/ CallTool \/ Answer

Spec == Init /\ [][Next]_vars

(* ---------------------- one call, any upstream answer ------------------- *)

CallOnce ==
    /\ calls = <<>>
    /\ \E name \in RequestNames, args \in RequestArgs : Begin(name, args)

AnswerOnce ==
    /\ calls # <<>>
    /\ \E resp \in AnswersTo(calls[1].name) : Settle(1, resp)

NextOnce == CallOnce \/ AnswerOnce

SpecOnce == Init /\ [][NextOnce]_vars

(* ------------------ concurrent calls and the requests they send --------- *)

\* a caller sends a request for a registered operation
CallRegistered ==
    /\ Len(calls) < MaxCalls
    /\ \E name \in ToolNames :
          \E args \in {NoArgs, EmptyArgs, RequiredArgs, MalformedArgs} :
              Begin(name, args)

\* the upstream fails or answers one of the suspended calls
FailOrAnswer ==
    \E id \in DOMAIN calls :
        \E resp \in ServerAnswersTo(calls[id].name) \ {Http404, Http500} :
            Settle(id, resp)

NextRequests == CallRegistered \/ FailOrAnswer

SpecRequests == Init /\ [][NextRequests]_vars

(* --------------------- one search call, any snippet --------------------- *)

\* every string of at most n characters of chars
StringsUpTo(chars, n) == UNION {[1..k -> chars] : k \in 0..n}

\* a <b>bold</b> word
ExampleSnippet ==
    <<"a", " ", "<", "b", ">", "b", "o", "l", "d", "<", "/", "b", ">",
      " ", "w", "o", "r", "d">>

Snippets == StringsUpTo({"a", "<", ">"}, MaxSnippetLen) \cup {ExampleSnippet}

SnippetAnswerOf(snippet) ==
    Ok(SearchBody(Arr(<<SearchResult(Lit("T"), Str(snippet))>>)))

SnippetCall == calls = <<>> /\ Begin("wikipedia_search", RequiredArgs)

SnippetAnswer == \E snippet \in Snippets : Settle(1, SnippetAnswerOf(snippet))

NextSnippet == SnippetCall \/ SnippetAnswer

SpecSnippet == Init /\ [][NextSnippet]_vars

(* --------------------- one summary call, any extract -------------------- *)

\* A. B. C. D.
ExampleExtract == <<"A", ".", " ", "B", ".", " ", "C", ".", " ", "D", ".">>

Extracts == StringsUpTo({"A", ".", " "}, MaxExtractLen) \cup {ExampleExtract}

\* the values of `sentences` a caller sends; Undefined is the omitted argument
SentenceArgs == {Num(n) : n \in -2..3} \cup {Undefined}

ExtractAnswerOf(extract) == Ok(SummaryBody(Lit("standard"), Lit("T"), Str(extract)))

ExtractCall ==
    /\ calls = <<>>
    /\ \E n \in SentenceArgs :
          Begin("wikipedia_summary", ArgMap(Undefined, Undefined, Lit("T"), n))

ExtractAnswer == \E extract \in Extracts : Settle(1, ExtractAnswerOf(extract))

NextExtract == ExtractCall \/ ExtractAnswer

SpecExtract == Init /\ [][NextExtract]_vars

(* ------------------ one page-info call, any category list --------------- *)

TitlePieces == {CategoryPrefix, <<"F", "o", "o">>, <<"C">>}

\* every concatenation of at most n pieces
RECURSIVE TitlesUpTo(_)
TitlesUpTo(n) ==
    IF n = 0 THEN {<<>>}
    ELSE TitlesUpTo(n - 1)
         \cup {t \o piece : t \in TitlesUpTo(n - 1), piece \in TitlePieces}

CategoryTitles == TitlesUpTo(MaxPieces)

CategoryLists == UNION {[1..k -> {Str(t) : t \in CategoryTitles}] : k \in 0..MaxCategories}

CategoryAnswerOf(list) ==
    Ok(PagesBody(<<[Page("42", Lit("T"), Num(42), Undefined)
                    EXCEPT !.categories = Arr(list)]>>))

CategoryCall == calls = <<>> /\ Begin("wikipedia_page_info", RequiredArgs)

CategoryAnswer == \E list \in CategoryLists : Settle(1, CategoryAnswerOf(list))

NextCategory == CategoryCall \/ CategoryAnswer

SpecCategory == Init /\ [][NextCategory]_vars

(* ============================== properties ============================== *)

Done(id) == calls[id].pc = "done"

Requests(id) == {k \in DOMAIN http : http[k].call = id}

\* the text of the single text block a call returned
TextOf(id) == calls[id].out.content[1].text

OneTextBlock(id) ==
    /\ calls[id].out.kind = "return"
    /\ Len(calls[id].out.content) = 1
    /\ calls[id].out.content[1].type = "text"

NotFoundText(title) == <<"No Wikipedia page found for '">> \o Show(title) \o <<"'">>

\* C1: a call whose name is none of the four registered names, whatever its
\* arguments, ends with the MethodNotFound failure "Unknown tool: <name>",
\* runs no handler and issues no HTTP request.
C1_UnknownOperation ==
    \A id \in DOMAIN calls :
        calls[id].name \notin {"wikipedia_search", "wikipedia_summary",
                               "wikipedia_content", "wikipedia_page_info"}
        => /\ Done(id)
           /\ calls[id].out.kind = "McpError"
           /\ calls[id].out.code = "MethodNotFound"
           /\ calls[id].out.text = <<"Unknown tool: ", calls[id].name>>
           /\ calls[id].handler = "none"
           /\ Requests(id) = {}

\* an unknown name was called with and without an argument mapping, while
\* another call had already issued its request
C1_Witness ==
    /\ Len(calls) = 2
    /\ calls[1].name = "wikipedia_search" /\ calls[1].pc = "await" /\ Len(http) = 1
    /\ calls[2].name = "wikipedia_random" /\ calls[2].args = FullArgs /\ Done(2)

\* C2: page-absent and disambiguation answers are successes with one text
\* block: (a) summary on status 404, (b) summary on an absent payload or a
\* disambiguation page, (c) content on page identifier "-1" or a page
\* without extract, (d) page-info on page identifier "-1".
C2_AbsentIsSuccess ==
    \A id \in DOMAIN calls :
        LET c == calls[id]
            r == c.resp
            hasPage == r.err = "none" /\ r.body.hasData /\ r.body.hasQuery
                       /\ r.body.pages # <<>>
        IN Done(id) =>
           /\ (c.name = "wikipedia_summary" /\ r.err = "http" /\ r.status = 404)
              => OneTextBlock(id) /\ TextOf(id) = NotFoundText(c.args.title)
           /\ (c.name = "wikipedia_summary" /\ r.err = "none"
               /\ (~r.body.hasData \/ r.body.type = Lit("disambiguation")))
              => /\ OneTextBlock(id)
                 /\ TextOf(id) = <<"Multiple articles found for '">>
                                 \o Show(c.args.title)
                                 \o <<"'. Please be more specific.">>
           /\ (c.name = "wikipedia_content" /\ hasPage
               /\ (r.body.pages[1].id = "-1" \/ ~Truthy(r.body.pages[1].extract)))
              => OneTextBlock(id) /\ TextOf(id) = NotFoundText(c.args.title)
           /\ (c.name = "wikipedia_page_info" /\ hasPage /\ r.body.pages[1].id = "-1")
              => OneTextBlock(id) /\ TextOf(id) = NotFoundText(c.args.title)

\* a content call was answered with page "-1" that carries an extract
C2_Witness ==
    /\ Len(calls) = 1
    /\ calls[1].name = "wikipedia_content" /\ Done(1)
    /\ calls[1].args = EmptyArgs
    /\ calls[1].resp = Ok(PagesBody(<<Page("-1", Lit("T"), Num(42), ExtractABC)>>))
    /\ TextOf(1) = <<"No Wikipedia page found for '", "undefined", "'">>

\* C3: a search call whose upstream answer carries an empty result list or no
\* result list at all returns the single text block
\* "No results found for query: <query>", never a failure.
C3_NoResultsIsSuccess ==
    \A id \in DOMAIN calls :
        LET c == calls[id]
            r == c.resp
            hasList == r.body.hasData /\ r.body.hasQuery /\ r.body.search.t = "array"
        IN (Done(id) /\ c.name = "wikipedia_search" /\ r.err = "none"
            /\ (~hasList \/ r.body.search.a = <<>>))
           => /\ OneTextBlock(id)
              /\ TextOf(id) = <<"No results found for query: ">> \o Show(c.args.query)

\* the failure kind by which the caller tells failures apart
FailureCode(id) == calls[id].out.code

\* the upstream call of id failed and the handler does not turn that into a result
UpstreamFailed(id) ==
    /\ Done(id)
    /\ calls[id].resp.err \in {"network", "http"}
    /\ ~(calls[id].name = "wikipedia_summary" /\ calls[id].resp.status = 404)

\* a failure made by the dispatcher itself: unknown name, or the catch-all
DispatcherMade(id) ==
    Done(id) /\ (calls[id].handler = "none" \/ calls[id].raised.kind = "error")

\* C4 as stated: an upstream error surfaces with the handler's own failure
\* kind; the kinds of different handlers differ from each other and from the
\* dispatcher's InternalError, and the upstream error text is in the message.
C4_KindPerHandler ==
    \A i, j \in DOMAIN calls :
        UpstreamFailed(i) =>
           /\ calls[i].out.kind = "McpError"
           /\ (UpstreamFailed(j) /\ calls[j].name # calls[i].name)
              => FailureCode(i) # FailureCode(j)
           /\ DispatcherMade(j) => FailureCode(i) # FailureCode(j)

HandlerPrefix(name) ==
    CASE name = "wikipedia_search" -> "Wikipedia search failed: "
      [] name = "wikipedia_summary" -> "Failed to get summary: "
      [] name = "wikipedia_content" -> "Failed to get content: "
      [] OTHER -> "Failed to get page info: "

\* C4 as amended: an upstream error surfaces as an InternalError failure whose
\* message is the handler's own prefix followed by the upstream error text;
\* the prefixes of different handlers differ from each other and from the
\* dispatcher's own messages, and the code differs from MethodNotFound.
C4_PrefixPerHandler ==
    \A i, j \in DOMAIN calls :
        UpstreamFailed(i) =>
           /\ calls[i].out.kind = "McpError"
           /\ calls[i].out.code = "InternalError"
           /\ calls[i].out.text = <<HandlerPrefix(calls[i].name)>> \o calls[i].resp.message
           /\ (UpstreamFailed(j) /\ calls[j].name # calls[i].name)
              => calls[i].out.text[1] # calls[j].out.text[1]
           /\ DispatcherMade(j)
              => /\ calls[i].out.text[1] # calls[j].out.text[1]
                 /\ calls[j].handler = "none" => FailureCode(i) # FailureCode(j)

\* a content call and a summary call both failed on a network error
C4_Witness ==
    /\ Len(calls) = 2
    /\ calls[1].name = "wikipedia_content" /\ calls[2].name = "wikipedia_summary"
    /\ UpstreamFailed(1) /\ UpstreamFailed(2)
    /\ calls[1].resp = NetworkError /\ calls[2].resp = Http500

\* the (code, message prefix) pairs a caller can receive
FailureKinds ==
    {<<"MethodNotFound", "Unknown tool: ">>,
     <<"InternalError", "Wikipedia search failed: ">>,
     <<"InternalError", "Failed to get summary: ">>,
     <<"InternalError", "Failed to get content: ">>,
     <<"InternalError", "Failed to get page info: ">>,
     <<"InternalError", "Error executing ">>}

\* C5: a failure a handler raised as an McpError reaches the caller unchanged;
\* any other failure raised while executing a registered operation (a handler
\* invoked without an argument mapping) reaches the caller as InternalError
\* "Error executing <name>: <original message>"; every failure a caller sees
\* is one of the enumerated kinds.
C5_SingleBoundary ==
    \A id \in DOMAIN calls :
        LET c == calls[id]
        IN Done(id) =>
           /\ c.out.kind \in {"return", "McpError"}
           /\ c.raised.kind = "McpError" => c.out = c.raised
           /\ c.raised.kind = "error"
              => /\ c.out.kind = "McpError"
                 /\ c.out.code = "InternalError"
                 /\ c.out.text = <<"Error executing ", c.name, ": ">> \o c.raised.text
           /\ (c.handler # "none" /\ ~c.args.present)
              => c.raised.kind = "error" /\ c.out.code = "InternalError"
           /\ c.out.kind = "McpError" => <<c.out.code, c.out.text[1]>> \in FailureKinds

\* one call failed in its handler on an upstream error, another was made
\* without an argument mapping
C5_Witness ==
    /\ Len(calls) = 2
    /\ calls[1].name = "wikipedia_search" /\ Done(1) /\ calls[1].resp = NetworkError
    /\ calls[1].raised.kind = "McpError"
    /\ calls[2].name = "wikipedia_page_info" /\ Done(2) /\ calls[2].args = NoArgs
    /\ calls[2].raised.kind = "error"

\* position i of s lies inside a substring that matches <...>: a "<", then
\* characters other than ">", then a ">"
InTag(s, i) ==
    \E j \in 1..i, k \in i..Len(s) :
        /\ j < k
        /\ s[j] = "<"
        /\ s[k] = ">"
        /\ \A m \in (j + 1)..(k - 1) : s[m] # ">"

\* the characters of s outside every such substring, in order
OutsideTags(s) ==
    LET keep == {i \in 1..Len(s) : ~InTag(s, i)}
        nth(r) == CHOOSE i \in keep : Cardinality({j \in keep : j < i}) = r - 1
    IN [r \in 1..Cardinality(keep) |-> s[nth(r)]]

HasTag(s) == \E i \in 1..Len(s) : InTag(s, i)

\* id is a finished search call answered with one result whose snippet is a string
OneSnippet(id) ==
    /\ Done(id)
    /\ calls[id].name = "wikipedia_search"
    /\ calls[id].resp.err = "none"
    /\ calls[id].resp.body.hasQuery
    /\ calls[id].resp.body.search.t = "array"
    /\ Len(calls[id].resp.body.search.a) = 1
    /\ calls[id].resp.body.search.a[1].snippet.t = "string"

\* the result text of a search call with one result, given its snippet line
SearchTextWith(id, line) ==
    <<"Wikipedia search results for '">> \o Show(calls[id].args.query) \o <<"':\n\n">>
    \o <<"1", ". ">> \o Show(calls[id].resp.body.search.a[1].title) \o <<"\n">>
    \o line \o <<"\n">>

\* C6: the snippet line of a search result is the snippet without the
\* substrings that match <...>, every other character kept in order; a snippet
\* without such a substring is printed unchanged.
C6_SnippetStripping ==
    \A id \in DOMAIN calls :
        OneSnippet(id) =>
            LET snippet == calls[id].resp.body.search.a[1].snippet.s
            IN /\ OneTextBlock(id)
               /\ snippet # <<>> =>
                    TextOf(id) = SearchTextWith(id, <<"   ">> \o OutsideTags(snippet) \o <<"\n">>)
               /\ (snippet # <<>> /\ ~HasTag(snippet)) =>
                    TextOf(id) = SearchTextWith(id, <<"   ">> \o snippet \o <<"\n">>)
               /\ snippet = ExampleSnippet =>
                    TextOf(id) = SearchTextWith(id,
                        <<"   ", "a", " ", "b", "o", "l", "d", " ", "w", "o", "r", "d", "\n">>)

\* a snippet with two tags and text between and after them was stripped
C6_Witness ==
    /\ Len(calls) = 1
    /\ OneSnippet(1)
    /\ calls[1].resp.body.search.a[1].snippet.s = <<"<", ">", "a", ">">>
    /\ TextOf(1) = SearchTextWith(1, <<"   ", "a", ">", "\n">>)

\* the first n elements of a: none when n <= 0, all when n >= Len(a)
FirstN(a, n) == SubSeq(a, 1, IF n < 0 THEN 0 ELSE IF n > Len(a) THEN Len(a) ELSE n)

EndsWith(s, suffix) ==
    Len(s) >= Len(suffix) /\ SubSeq(s, Len(s) - Len(suffix) + 1, Len(s)) = suffix

\* id is a finished summary call answered with a standard page and an extract
HasExtract(id) ==
    /\ Done(id)
    /\ calls[id].name = "wikipedia_summary"
    /\ calls[id].resp.err = "none"
    /\ calls[id].resp.body.hasData
    /\ calls[id].resp.body.type = Lit("standard")
    /\ Truthy(calls[id].resp.body.extract)
    /\ ~calls[id].resp.body.hasDesktop

\* the result text of a summary call, given its core text
SummaryTextWith(id, core) ==
    <<"Summary of '">> \o Show(calls[id].resp.body.title) \o <<"':\n\n">> \o core

\* the `sentences` a summary call asked for, 3 when it gave none
AskedSentences(id) ==
    IF calls[id].args.sentences.t = "undefined" THEN 3 ELSE calls[id].args.sentences.n

\* C7: for every non-empty extract and every integer `sentences`, the core
\* text is the first `sentences` fragments of the extract split on ". ",
\* joined by ". ", followed by "." iff the extract had more fragments than
\* were kept; "A. B. C. D." with 2 gives "A. B."; the output ends in ".."
\* only if the extract contains "..".
C7_SummaryTruncation ==
    \A id \in DOMAIN calls :
        HasExtract(id) =>
            LET extract == calls[id].resp.body.extract.s
                frags == Split(extract, <<".", " ">>)
                kept == FirstN(frags, AskedSentences(id))
                core == Join(kept, <<".", " ">>)
                        \o (IF Len(frags) > Len(kept) THEN <<".">> ELSE <<>>)
            IN /\ OneTextBlock(id)
               /\ TextOf(id) = SummaryTextWith(id, core)
               /\ (extract = ExampleExtract /\ AskedSentences(id) = 2)
                  => TextOf(id) = SummaryTextWith(id, <<"A", ".", " ", "B", ".">>)
               /\ EndsWith(TextOf(id), <<".", ".">>) => IndexOf(extract, <<".", ".">>) # 0

\* the title without a leading "Category:"; unchanged when it has none
WithoutLeadingPrefix(title) ==
    IF MatchAt(title, CategoryPrefix, 1)
    THEN SubSeq(title, Len(CategoryPrefix) + 1, Len(title))
    ELSE title

\* id is a finished page-info call answered with an existing page that has categories
HasCategories(id) ==
    /\ Done(id)
    /\ calls[id].name = "wikipedia_page_info"
    /\ calls[id].resp.err = "none"
    /\ calls[id].resp.body.hasQuery
    /\ calls[id].resp.body.pages # <<>>
    /\ calls[id].resp.body.pages[1].id # "-1"
    /\ calls[id].resp.body.pages[1].categories.t = "array"
    /\ \A i \in DOMAIN calls[id].resp.body.pages[1].categories.a :
           calls[id].resp.body.pages[1].categories.a[i].t = "string"
    /\ ~Truthy(calls[id].resp.body.pages[1].fullurl)
    /\ calls[id].resp.body.pages[1].links.t = "undefined"
    /\ calls[id].resp.body.pages[1].images.t = "undefined"

\* C8: the Categories line lists the upstream category titles in order,
\* joined by ", ", each without its leading "Category:" and otherwise
\* unchanged.
C8_CategoryPrefix ==
    \A id \in DOMAIN calls :
        HasCategories(id) =>
            LET page == calls[id].resp.body.pages[1]
                names == [i \in DOMAIN page.categories.a |->
                            WithoutLeadingPrefix(page.categories.a[i].s)]
            IN /\ OneTextBlock(id)
               /\ TextOf(id) = <<"Title: ">> \o Show(page.title) \o <<"\n">>
                               \o <<"Page ID: ">> \o Show(page.pageid) \o <<"\n">>
                               \o <<"Categories: ">> \o Join(names, <<",", " ">>)
                               \o <<"\n">>

\* the entry of a discovery list for a name
EntryOf(list, name) == list[CHOOSE e \in DOMAIN list : list[e].name = name]

\* the default a discovery list declares for an optional field of a name
DeclaredDefault(list, name, field) ==
    CHOOSE v \in 0..10 : <<field, v>> \in EntryOf(list, name).defaults

\* the value of a parameter of the request a call issued
ParamOf(id, key) ==
    LET params == http[CHOOSE k \in DOMAIN http : http[k].call = id].request.params
    IN params[CHOOSE p \in DOMAIN params : params[p][1] = key][2]

\* C9: every discovery answer has exactly four entries, one per operation
\* name, requiring {query} for search and {title} for the others, with the
\* optional fields results (default 5) and sentences (default 3); all
\* discovery answers are equal whatever calls came before; a name reaches a
\* handler iff the list names it; and the default a handler applies for an
\* omitted optional argument is the default the list declares.
C9_DiscoveryAgrees ==
    \A k \in DOMAIN discovered :
        LET list == discovered[k]
            names == {list[e].name : e \in DOMAIN list}
            optional(name) == EntryOf(list, name).properties \ EntryOf(list, name).required
        IN /\ Len(list) = 4
           /\ names = {"wikipedia_search", "wikipedia_summary", "wikipedia_content",
                       "wikipedia_page_info"}
           /\ EntryOf(list, "wikipedia_search").required = {"query"}
           /\ \A name \in names \ {"wikipedia_search"} :
                  EntryOf(list, name).required = {"title"}
           /\ optional("wikipedia_search") = {"results"}
           /\ optional("wikipedia_summary") = {"sentences"}
           /\ optional("wikipedia_content") = {}
           /\ optional("wikipedia_page_info") = {}
           /\ EntryOf(list, "wikipedia_search").defaults = {<<"results", 5>>}
           /\ EntryOf(list, "wikipedia_summary").defaults = {<<"sentences", 3>>}
           /\ EntryOf(list, "wikipedia_content").defaults = {}
           /\ EntryOf(list, "wikipedia_page_info").defaults = {}
           /\ \A l \in DOMAIN discovered : discovered[l] = list
           /\ \A id \in DOMAIN calls :
                 /\ calls[id].handler # "none" <=> calls[id].name \in names
                 /\ (calls[id].name = "wikipedia_search" /\ calls[id].args.present
                     /\ calls[id].args.results.t = "undefined")
                    => ParamOf(id, "srlimit")
                         = Num(DeclaredDefault(list, "wikipedia_search", "results"))
                 /\ (HasExtract(id) /\ calls[id].args.sentences.t = "undefined")
                    => TextOf(id) = SummaryTextWith(id,
                          SummaryCore(calls[id].resp.body.extract.s,
                                      DeclaredDefault(list, "wikipedia_summary",
                                                      "sentences")))

\* discovery was answered twice around a search call and a summary call that
\* both left out their optional argument
C9_Witness ==
    /\ Len(discovered) = 2
    /\ Len(calls) = 2
    /\ calls[1].name = "wikipedia_search" /\ calls[1].args = RequiredArgs
    /\ calls[2].name = "wikipedia_summary" /\ calls[2].args = RequiredArgs
    /\ HasExtract(2)
    /\ TextOf(2) = SummaryTextWith(2, <<"A", ".", " ", "B", ".", " ", "C", ".">>)

Registered(id) ==
    calls[id].name \in {"wikipedia_search", "wikipedia_summary", "wikipedia_content",
                        "wikipedia_page_info"}

\* C11 as stated: every call of a registered operation, whatever its argument
\* mapping (a missing mapping and a missing required argument included), has
\* issued exactly one HTTP GET when it returns, and never more than one.
C11_OneGetPerCall ==
    \A id \in DOMAIN calls :
        Registered(id) =>
           /\ Cardinality(Requests(id)) <= 1
           /\ \A k \in Requests(id) : http[k].method = "GET"
           /\ Done(id) => Cardinality(Requests(id)) = 1

\* the handler of id fails before it reaches its axios.get
FailsBeforeGet(id) ==
    \/ ~calls[id].args.present
    \/ /\ calls[id].name = "wikipedia_summary"
       /\ calls[id].args.title.t = "string"
       /\ \E i \in DOMAIN calls[id].args.title.s :
              calls[id].args.title.s[i] = LoneSurrogate

\* C11 as amended: a call of a registered operation issues at most one HTTP
\* GET, failed or not; it has issued exactly one when it is suspended or has
\* returned, unless it has no argument mapping (InternalError "Error
\* executing <name>: ...") or is a summary call whose title cannot be
\* percent-encoded ("Failed to get summary: URI malformed"): those fail
\* without any request.
C11_OneGetWhenReached ==
    \A id \in DOMAIN calls :
        Registered(id) =>
           /\ Cardinality(Requests(id)) <= 1
           /\ \A k \in Requests(id) : http[k].method = "GET"
           /\ ~FailsBeforeGet(id) => Cardinality(Requests(id)) = 1
           /\ FailsBeforeGet(id)
              => /\ Done(id)
                 /\ Requests(id) = {}
                 /\ calls[id].out.kind = "McpError"
                 /\ calls[id].out.code = "InternalError"
                 /\ calls[id].out.text[1] =
                       (IF calls[id].args.present THEN "Failed to get summary: "
                        ELSE "Error executing ")

\* a call without a required argument failed upstream after its one request,
\* and a call without an argument mapping failed without any
C11_Witness ==
    /\ Len(calls) = 2
    /\ calls[1].name = "wikipedia_search" /\ calls[1].args = EmptyArgs
    /\ Done(1) /\ calls[1].resp = NetworkError
    /\ Cardinality(Requests(1)) = 1
    /\ calls[2].name = "wikipedia_content" /\ calls[2].args = NoArgs
    /\ Done(2) /\ Requests(2) = {}

\* id is a finished summary call answered with a standard page whose extract
\* is a string, the empty one included
HasStringExtract(id) ==
    /\ Done(id)
    /\ calls[id].name = "wikipedia_summary"
    /\ calls[id].resp.err = "none"
    /\ calls[id].resp.body.hasData
    /\ calls[id].resp.body.type = Lit("standard")
    /\ calls[id].resp.body.extract.t = "string"
    /\ ~calls[id].resp.body.hasDesktop

\* C12: for every extract and every `sentences` of at least 1 (the default 3
\* included), the core text of the summary is a prefix of the extract, so no
\* character is emitted that the extract does not have at that position, and
\* it is the whole extract when the extract splits on ". " into at most
\* `sentences` fragments.
C12_CoreIsPrefix ==
    \A id \in DOMAIN calls :
        (HasStringExtract(id) /\ AskedSentences(id) >= 1) =>
            LET extract == calls[id].resp.body.extract.s
            IN /\ \E k \in 0..Len(extract) :
                     TextOf(id) = SummaryTextWith(id, SubSeq(extract, 1, k))
               /\ Len(Split(extract, <<".", " ">>)) <= AskedSentences(id)
                  => TextOf(id) = SummaryTextWith(id, extract)

\* "A. A" cut to one sentence gave the proper prefix "A."
C12_Witness ==
    /\ Len(calls) = 1
    /\ HasStringExtract(1)
    /\ calls[1].args.sentences = Num(1)
    /\ calls[1].resp.body.extract.s = <<"A", ".", " ", "A">>
    /\ TextOf(1) = SummaryTextWith(1, <<"A", ".">>)

\* an extract of fewer fragments than the default 3 came back whole
C12_WitnessWhole ==
    /\ Len(calls) = 1
    /\ HasStringExtract(1)
    /\ calls[1].args.sentences = Undefined
    /\ calls[1].resp.body.extract.s = <<"A", ".", " ", "A">>
    /\ TextOf(1) = SummaryTextWith(1, <<"A", ".", " ", "A">>)

====
